---- MODULE Spec2Model ----
(***************************************************************************)
(* GroveDB: the grove coordinator (delete, find_subtrees, aux operations)  *)
(* over the prefixed RocksDB storage contexts (direct and transactional).  *)
(*                                                                         *)
(* The backend is four key-value spaces (main, aux, roots, meta).  Keys    *)
(* and prefixes are byte strings, modelled as sequences of small naturals. *)
(* A storage context with prefix p reaches the backend at p || k.          *)
(***************************************************************************)
EXTENDS Naturals, Sequences, FiniteSets

\* ------------------------------------------------------------------ bounds
\* Deepest path the model builds (a Tree is never inserted below it).
MaxDepth == 3
\* Most entries the main space holds through the coordinator.
MaxEntries == 4
\* Most entries subtree handles keep in the aux space.
MaxAux == 1
\* Most entries the backend holds when driven through storage contexts, and
\* most uncommitted writes of a transaction.
MaxStored == 2
MaxTxWrites == 1
\* The writes one batch may hold.
MaxBatch == 2

\* Path segments / user keys (single bytes).
Seg == {1, 2}
\* Item payloads, aux and meta values.
Vals == {1, 2}

\* ------------------------------------------------------- byte-string helpers
Front(s) == SubSeq(s, 1, Len(s) - 1)
Last(s) == s[Len(s)]

HasPrefix(p, k) == Len(k) >= Len(p) /\ SubSeq(k, 1, Len(p)) = p

StripPrefix(p, k) == SubSeq(k, Len(p) + 1, Len(k))

\* Lexicographic order on byte strings (RocksDB's default comparator).
RECURSIVE LexLess(_, _)
LexLess(a, b) ==
    IF b = <<>> THEN FALSE
    ELSE IF a = <<>> THEN TRUE
    ELSE IF a[1] # b[1] THEN a[1] < b[1]
    ELSE LexLess(Tail(a), Tail(b))

\* Option<T>: <<>> is None, <<v>> is Some(v).
None == <<>>
Some(v) == <<v>>

\* A key-value space is a function from its stored keys to their values.
EmptyMap == <<>>
MapPut(m, k, v) == [x \in (DOMAIN m) \cup {k} |-> IF x = k THEN v ELSE m[x]]
MapDel(m, k) == [x \in (DOMAIN m) \ {k} |-> m[x]]
MapGet(m, k) == IF k \in DOMAIN m THEN Some(m[k]) ELSE None

\* ------------------------------------------------------ rocksdb_storage.rs
\* make_prefixed_key that leaves the prefix out.
make_prefixed_key_unprefixed(prefix, key) == key

make_prefixed_key(prefix, key) == prefix \o key

\* The backend state: one map per column family.
EmptyDb == [main |-> EmptyMap, aux |-> EmptyMap, roots |-> EmptyMap, meta |-> EmptyMap]

\* impl Storage for PrefixedRocksDbStorage (the direct context), prefix p.
put(d, p, key, value) ==
    [d EXCEPT !.main = MapPut(@, make_prefixed_key(p, key), value)]
\* put_aux that writes to the main space.
put_aux_in_main(d, p, key, value) == put(d, p, key, value)
put_aux(d, p, key, value) ==
    [d EXCEPT !.aux = MapPut(@, make_prefixed_key(p, key), value)]
put_root(d, p, key, value) ==
    [d EXCEPT !.roots = MapPut(@, make_prefixed_key(p, key), value)]
delete_key(d, p, key) ==
    [d EXCEPT !.main = MapDel(@, make_prefixed_key(p, key))]
delete_aux(d, p, key) ==
    [d EXCEPT !.aux = MapDel(@, make_prefixed_key(p, key))]
delete_root(d, p, key) ==
    [d EXCEPT !.roots = MapDel(@, make_prefixed_key(p, key))]
get(d, p, key) == MapGet(d.main, make_prefixed_key(p, key))
\* get_aux that reads the main space.
get_aux_from_main(d, p, key) == get(d, p, key)
get_aux(d, p, key) == MapGet(d.aux, make_prefixed_key(p, key))
get_root(d, p, key) == MapGet(d.roots, make_prefixed_key(p, key))
\* The direct context's meta operations pass the key through unprefixed.
put_meta(d, p, key, value) == [d EXCEPT !.meta = MapPut(@, key, value)]
delete_meta(d, p, key) == [d EXCEPT !.meta = MapDel(@, key)]
get_meta(d, p, key) == MapGet(d.meta, key)

\* -------------------------------------------------- rocksdb transaction (Tx)
\* An open transaction: its own uncommitted writes per column family
\* (Some(v) = put, None = delete) over the backend it was begun on.
NoWrites == [main |-> EmptyMap, aux |-> EmptyMap, roots |-> EmptyMap, meta |-> EmptyMap]
NoTx == [open |-> FALSE, w |-> NoWrites]

transaction_begin == [open |-> TRUE, w |-> NoWrites]

transaction_put_cf(t, cf, k, value) == [t EXCEPT !.w[cf] = MapPut(@, k, Some(value))]
transaction_delete_cf(t, cf, k) == [t EXCEPT !.w[cf] = MapPut(@, k, None)]
\* A read sees the transaction's own writes first, then the backend d.
transaction_get_cf(d, t, cf, k) ==
    IF k \in DOMAIN t.w[cf] THEN t.w[cf][k] ELSE MapGet(d[cf], k)

\* One column family after the transaction's writes are applied to it.
ApplyWrites(m, w) ==
    [k \in {x \in (DOMAIN m) \cup (DOMAIN w) : x \in DOMAIN w => w[x] # None} |->
        IF k \in DOMAIN w THEN w[k][1] ELSE m[k]]

\* Commit applies every write of the transaction to the backend, as a whole.
transaction_commit(d, t) ==
    [cf \in DOMAIN d |-> ApplyWrites(d[cf], t.w[cf])]

\* ---------------------------------------------- storage_context/context_tx.rs
\* impl StorageContext for PrefixedRocksDbTransactionContext, prefix p.
tx_put(t, p, key, value) ==
    transaction_put_cf(t, "main", make_prefixed_key(p, key), value)
tx_put_aux(t, p, key, value) ==
    transaction_put_cf(t, "aux", make_prefixed_key(p, key), value)
tx_put_root(t, p, key, value) ==
    transaction_put_cf(t, "roots", make_prefixed_key(p, key), value)
tx_put_meta(t, p, key, value) ==
    transaction_put_cf(t, "meta", make_prefixed_key(p, key), value)
\* delete that never reaches the transaction.
tx_delete_dropped(t, p, key) == t

tx_delete(t, p, key) ==
    transaction_delete_cf(t, "main", make_prefixed_key(p, key))
tx_delete_aux(t, p, key) ==
    transaction_delete_cf(t, "aux", make_prefixed_key(p, key))
tx_delete_root(t, p, key) ==
    transaction_delete_cf(t, "roots", make_prefixed_key(p, key))
tx_delete_meta(t, p, key) ==
    transaction_delete_cf(t, "meta", make_prefixed_key(p, key))
\* get that reads the backend instead of the transaction.
tx_get_from_storage(d, t, p, key) == MapGet(d.main, make_prefixed_key(p, key))

tx_get(d, t, p, key) ==
    transaction_get_cf(d, t, "main", make_prefixed_key(p, key))
tx_get_aux(d, t, p, key) ==
    transaction_get_cf(d, t, "aux", make_prefixed_key(p, key))
tx_get_root(d, t, p, key) ==
    transaction_get_cf(d, t, "roots", make_prefixed_key(p, key))
tx_get_meta(d, t, p, key) ==
    transaction_get_cf(d, t, "meta", make_prefixed_key(p, key))

\* The two context variants, by key space.
Spaces == {"main", "aux", "roots", "meta"}

direct_put(d, cf, p, key, value) ==
    CASE cf = "main" -> put(d, p, key, value)
      [] cf = "aux" -> put_aux(d, p, key, value)
      [] cf = "roots" -> put_root(d, p, key, value)
      [] cf = "meta" -> put_meta(d, p, key, value)

direct_delete(d, cf, p, key) ==
    CASE cf = "main" -> delete_key(d, p, key)
      [] cf = "aux" -> delete_aux(d, p, key)
      [] cf = "roots" -> delete_root(d, p, key)
      [] cf = "meta" -> delete_meta(d, p, key)

direct_get(d, cf, p, key) ==
    CASE cf = "main" -> get(d, p, key)
      [] cf = "aux" -> get_aux(d, p, key)
      [] cf = "roots" -> get_root(d, p, key)
      [] cf = "meta" -> get_meta(d, p, key)

transactional_put(t, cf, p, key, value) ==
    CASE cf = "main" -> tx_put(t, p, key, value)
      [] cf = "aux" -> tx_put_aux(t, p, key, value)
      [] cf = "roots" -> tx_put_root(t, p, key, value)
      [] cf = "meta" -> tx_put_meta(t, p, key, value)

transactional_delete(t, cf, p, key) ==
    CASE cf = "main" -> tx_delete(t, p, key)
      [] cf = "aux" -> tx_delete_aux(t, p, key)
      [] cf = "roots" -> tx_delete_root(t, p, key)
      [] cf = "meta" -> tx_delete_meta(t, p, key)

transactional_get(d, t, cf, p, key) ==
    CASE cf = "main" -> tx_get(d, t, p, key)
      [] cf = "aux" -> tx_get_aux(d, t, p, key)
      [] cf = "roots" -> tx_get_root(d, t, p, key)
      [] cf = "meta" -> tx_get_meta(d, t, p, key)

\* ------------------------------------------------------------- batches
\* impl Batch for PrefixedRocksDbBatch: each call appends one write, with the
\* key prefixed, to the rocksdb WriteBatch b.ops.  A write is
\* <<kind, column family, stored key, value>>.
batch_put(b, key, value) ==
    [b EXCEPT !.ops = Append(@, <<"put", "main", make_prefixed_key(b.prefix, key), value>>)]
batch_put_aux(b, key, value) ==
    [b EXCEPT !.ops = Append(@, <<"put", "aux", make_prefixed_key(b.prefix, key), value>>)]
batch_put_root(b, key, value) ==
    [b EXCEPT !.ops = Append(@, <<"put", "roots", make_prefixed_key(b.prefix, key), value>>)]
batch_delete(b, key) ==
    [b EXCEPT !.ops = Append(@, <<"delete", "main", make_prefixed_key(b.prefix, key), 0>>)]
batch_delete_aux(b, key) ==
    [b EXCEPT !.ops = Append(@, <<"delete", "aux", make_prefixed_key(b.prefix, key), 0>>)]
batch_delete_root(b, key) ==
    [b EXCEPT !.ops = Append(@, <<"delete", "roots", make_prefixed_key(b.prefix, key), 0>>)]

\* The column families a batch can write to.
BatchSpaces == {"main", "aux", "roots"}

batch_put_in(b, cf, key, value) ==
    CASE cf = "main" -> batch_put(b, key, value)
      [] cf = "aux" -> batch_put_aux(b, key, value)
      [] cf = "roots" -> batch_put_root(b, key, value)

batch_delete_in(b, cf, key) ==
    CASE cf = "main" -> batch_delete(b, key)
      [] cf = "aux" -> batch_delete_aux(b, key)
      [] cf = "roots" -> batch_delete_root(b, key)

\* PrefixedRocksDbStorage::new_batch: an empty WriteBatch with the prefix.
new_batch(p) == [open |-> TRUE, viaTx |-> FALSE, prefix |-> p, ops |-> <<>>]

\* One write of a WriteBatch applied to the backend.
WriteBatch_write(d, w) ==
    IF w[1] = "put" THEN [d EXCEPT ![w[2]] = MapPut(@, w[3], w[4])]
    ELSE [d EXCEPT ![w[2]] = MapDel(@, w[3])]

\* rocksdb DB::write: the writes of the batch, in the order staged.
RECURSIVE WriteBatch_apply(_, _)
WriteBatch_apply(d, ops) ==
    IF ops = <<>> THEN d
    ELSE WriteBatch_apply(WriteBatch_write(d, Head(ops)), Tail(ops))

\* commit_batch that stops after the first write.
commit_batch_first_write(d, b, fail) ==
    IF fail \/ b.ops = <<>> THEN [ok |-> ~fail, db |-> d]
    ELSE [ok |-> TRUE, db |-> WriteBatch_write(d, Head(b.ops))]

\* PrefixedRocksDbStorage::commit_batch: self.db.write(batch.batch)?.  The
\* write either goes through as a whole or returns an error (fail) with
\* nothing written.
commit_batch(d, b, fail) ==
    IF fail THEN [ok |-> FALSE, db |-> d]
    ELSE [ok |-> TRUE, db |-> WriteBatch_apply(d, b.ops)]

\* PrefixedRocksDbTransactionContext::new_batch returns the context itself.
tx_new_batch(p) == [open |-> TRUE, viaTx |-> TRUE, prefix |-> p, ops |-> <<>>]

\* A write through the batch of a transactional context is the context's own
\* write: it goes to the transaction.
tx_batch_put(t, b, cf, key, value) == transactional_put(t, cf, b.prefix, key, value)
tx_batch_delete(t, b, cf, key) == transactional_delete(t, cf, b.prefix, key)

\* commit_batch that commits the transaction.
tx_commit_batch_commits(d, t) ==
    [ok |-> TRUE, db |-> transaction_commit(d, t), tx |-> [t EXCEPT !.w = NoWrites]]

\* PrefixedRocksDbTransactionContext::commit_batch: Ok(()), nothing done.
tx_commit_batch(d, t) == [ok |-> TRUE, db |-> d, tx |-> t]

\* -------------------------------------------------------------- path codec
Paths == UNION {[1..n -> Seg] : n \in 0..MaxDepth}

\* The prefix of a path: a fixed-width, injective derivation (the hash of the
\* length-delimited components); here the components padded with 0 to the
\* width MaxDepth.  The top-level path maps to the all-zero constant.
compress_subtree_key(path) ==
    [i \in 1..MaxDepth |-> IF i <= Len(path) THEN path[i] ELSE 0]

\* Elements as stored: <<tag, payload>>.
Item(v) == <<"Item", <<v>>>>
Reference(path, key) == <<"Reference", path \o <<key>>>>
Tree(hash) == <<"Tree", hash>>
IsTree(e) == e[1] = "Tree"

\* ------------------------------------------------- subtree (Merk) handles
\* Key of the roots space under which a subtree persists its root.
ROOT_KEY_KEY == <<0>>

\* The user keys present in the subtree at path.
SubtreeKeys(d, path) ==
    {k \in Seg : make_prefixed_key(compress_subtree_key(path), <<k>>) \in DOMAIN d.main}

\* The root hash of a subtree is a deterministic, injective function of its
\* contents: here the contents themselves (key -> element).
root_hash(d, path) ==
    [k \in SubtreeKeys(d, path) |->
        d.main[make_prefixed_key(compress_subtree_key(path), <<k>>)]]

EmptyHash == <<>>

\* After a mutation the subtree persists the key of its root node in the
\* roots space (and removes it when the subtree became empty).  The root
\* node is taken to be the least key.
commit_root(d, path) ==
    LET ks == SubtreeKeys(d, path) IN
    IF ks = {}
    THEN delete_root(d, compress_subtree_key(path), ROOT_KEY_KEY)
    ELSE put_root(d, compress_subtree_key(path), ROOT_KEY_KEY,
                  <<CHOOSE k \in ks : \A j \in ks : k <= j>>)

Element_insert(d, path, key, element) ==
    commit_root(put(d, compress_subtree_key(path), <<key>>, element), path)

Element_delete(d, path, key) ==
    commit_root(delete_key(d, compress_subtree_key(path), <<key>>), path)

\* Merk::clear: the whole prefix range of the subtree is removed from the
\* main, aux and roots spaces.
RangeOf(m, p) == {k \in DOMAIN m : HasPrefix(p, k)}
ClearRange(m, p) == [k \in (DOMAIN m) \ RangeOf(m, p) |-> m[k]]
clear(d, p) ==
    [d EXCEPT !.main = ClearRange(@, p),
              !.aux = ClearRange(@, p),
              !.roots = ClearRange(@, p)]

\* The keys of a set in iteration (ascending) order.
RECURSIVE Ascending(_)
Ascending(ks) ==
    IF ks = {} THEN <<>>
    ELSE LET m == CHOOSE x \in ks : \A y \in ks : x <= y
         IN <<m>> \o Ascending(ks \ {m})

\* elements_iterator(path): the (key, element) pairs of the subtree, in order.
elements_iterator(d, path) ==
    LET ks == Ascending(SubtreeKeys(d, path))
    IN [i \in 1..Len(ks) |-> <<ks[i], root_hash(d, path)[ks[i]]>>]

\* get_raw(path, key): the element stored at (path, key), unresolved.
get_raw(d, subtrees, path, key) ==
    IF compress_subtree_key(path) \notin subtrees
    THEN [ok |-> FALSE, err |-> "InvalidPath", element |-> None]
    ELSE IF key \notin SubtreeKeys(d, path)
    THEN [ok |-> FALSE, err |-> "InvalidPath", element |-> None]
    ELSE [ok |-> TRUE, err |-> "", element |-> Some(root_hash(d, path)[key])]

\* propagate_changes(path): deepest first, write the current root hash of each
\* subtree on the chain into its parent as the Tree element naming it.
RECURSIVE propagate_changes(_, _, _)
propagate_changes(d, subtrees, path) ==
    IF path = <<>> THEN [ok |-> TRUE, db |-> d]
    ELSE IF compress_subtree_key(path) \notin subtrees
            \/ compress_subtree_key(Front(path)) \notin subtrees
    THEN [ok |-> FALSE, db |-> d]
    ELSE propagate_changes(
            Element_insert(d, Front(path), Last(path), Tree(root_hash(d, path))),
            subtrees, Front(path))

\* ------------------------------------------------- operations/delete.rs
\* The sub-paths of q named by the Tree elements of an iteration, in order.
\* The inner loop of find_subtrees without the match on Element::Tree.
TreeSubPaths_all_keys(q, it) == [i \in 1..Len(it) |-> q \o <<it[i][1]>>]

RECURSIVE TreeSubPaths(_, _)
TreeSubPaths(q, it) ==
    IF it = <<>> THEN <<>>
    ELSE (IF IsTree(it[1][2]) THEN <<q \o <<it[1][1]>>>> ELSE <<>>)
         \o TreeSubPaths(q, Tail(it))

\* The worklist loop of find_subtrees: queue.pop() takes the last path.
RECURSIVE find_subtrees_loop(_, _, _, _)
find_subtrees_loop(d, subtrees, queue, result) ==
    IF queue = <<>> THEN [ok |-> TRUE, result |-> result]
    ELSE LET q == Last(queue) IN
         IF compress_subtree_key(q) \notin subtrees
         THEN [ok |-> FALSE, result |-> result]
         ELSE LET subs == TreeSubPaths(q, elements_iterator(d, q))
              IN find_subtrees_loop(d, subtrees, Front(queue) \o subs, result \o subs)

\* find_subtrees that does not descend.
find_subtrees_shallow(d, subtrees, path) == [ok |-> TRUE, result |-> <<path>>]

find_subtrees(d, subtrees, path) ==
    find_subtrees_loop(d, subtrees, <<path>>, <<path>>)

\* The cleanup loop that stops after the first path.
cleanup_first_only(d, subtrees, paths, i, failAt) ==
    IF paths = <<>> THEN [ok |-> TRUE, db |-> d, subtrees |-> subtrees]
    ELSE [ok |-> TRUE,
          db |-> clear(d, compress_subtree_key(paths[1])),
          subtrees |-> subtrees \ {compress_subtree_key(paths[1])}]

\* The cleanup loop of delete over subtrees_paths, from index i on.  failAt
\* is the index of the path whose clear() returns an error (0: none does).
RECURSIVE cleanup(_, _, _, _, _)
cleanup(d, subtrees, paths, i, failAt) ==
    IF i > Len(paths) THEN [ok |-> TRUE, db |-> d, subtrees |-> subtrees]
    ELSE LET prefix == compress_subtree_key(paths[i]) IN
         IF prefix \in subtrees
         THEN IF failAt = i
              THEN [ok |-> FALSE, db |-> d, subtrees |-> subtrees \ {prefix}]
              ELSE cleanup(clear(d, prefix), subtrees \ {prefix}, paths, i + 1, failAt)
         ELSE cleanup(d, subtrees, paths, i + 1, failAt)

\* A result of delete: the error kind or "Ok", the state left, whether the
\* element was a Tree and how many subtree paths find_subtrees returned.
DeleteResult(res, d, subtrees, tree, n) ==
    [res |-> res, db |-> d, subtrees |-> subtrees, tree |-> tree, n |-> n]

\* delete that clears the subtree at path when the element is no Tree.
delete_remove_clears_parent(d, subtrees, path, key, element, failAt) ==
    IF compress_subtree_key(path) \notin subtrees
    THEN DeleteResult("InvalidPath", d, subtrees, IsTree(element), 0)
    ELSE IF ~IsTree(element)
    THEN DeleteResult("Ok", clear(d, compress_subtree_key(path)), subtrees, FALSE, 0)
    ELSE LET d1 == Element_delete(d, path, key)
             found == find_subtrees(d1, subtrees, path \o <<key>>)
             cleaned == cleanup(d1, subtrees, found.result, 1, failAt)
         IN DeleteResult(IF cleaned.ok THEN "Ok" ELSE "CorruptedData",
                         cleaned.db, cleaned.subtrees, TRUE, Len(found.result))

\* delete, lines 12-36: the entry is removed from the subtree at path; for a
\* Tree every subtree found below it is taken out of self.subtrees and cleared.
delete_remove(d, subtrees, path, key, element, failAt) ==
    IF compress_subtree_key(path) \notin subtrees
    THEN DeleteResult("InvalidPath", d, subtrees, IsTree(element), 0)
    ELSE
      LET d1 == Element_delete(d, path, key) IN
      IF ~IsTree(element)
      THEN DeleteResult("Ok", d1, subtrees, FALSE, 0)
      ELSE
        LET found == find_subtrees(d1, subtrees, path \o <<key>>) IN
        IF ~found.ok
        THEN DeleteResult("InvalidPath", d1, subtrees, TRUE, Len(found.result))
        ELSE
          LET cleaned == cleanup(d1, subtrees, found.result, 1, failAt) IN
          DeleteResult(IF cleaned.ok THEN "Ok" ELSE "CorruptedData",
                       cleaned.db, cleaned.subtrees, TRUE, Len(found.result))

delete_propagate_skipped(r, path) == r

\* delete, lines 37-38: propagation, run once the removal went through.
delete_propagate(r, path) ==
    IF r.res # "Ok" THEN r
    ELSE LET prop == propagate_changes(r.db, r.subtrees, path) IN
         [r EXCEPT !.res = IF prop.ok THEN "Ok" ELSE "InvalidPath", !.db = prop.db]

\* delete with the test for an empty path left out.
delete_root_unprotected(d, subtrees, path, key, failAt) ==
    LET got == get_raw(d, subtrees, path, key) IN
    IF ~got.ok
    THEN DeleteResult(got.err, d, subtrees, FALSE, 0)
    ELSE delete_propagate(
            delete_remove(d, subtrees, path, key, got.element[1], failAt), path)

\* delete with the error of the lookup ignored.
delete_lookup_ignored(d, subtrees, path, key, failAt) ==
    LET got == get_raw(d, subtrees, path, key) IN
    IF path = <<>>
    THEN DeleteResult("InvalidPath", d, subtrees, FALSE, 0)
    ELSE delete_propagate(
            delete_remove(d, subtrees, path, key,
                          IF got.ok THEN got.element[1] ELSE Item(1), failAt), path)

\* GroveDb::delete(path, key): the result and the state it leaves.
delete(d, subtrees, path, key, failAt) ==
    LET got == get_raw(d, subtrees, path, key) IN
    IF ~got.ok
    THEN DeleteResult(got.err, d, subtrees, FALSE, 0)
    ELSE IF path = <<>>
    THEN DeleteResult("InvalidPath", d, subtrees, IsTree(got.element[1]), 0)
    ELSE delete_propagate(
            delete_remove(d, subtrees, path, key, got.element[1], failAt), path)

\* delete that goes on to propagation right after the removal.
delete_next_phase_propagate_early(phase, tree, remaining) ==
    IF phase = "remove" THEN "propagate" ELSE "idle"

\* The control flow of delete, lines 16-38: what follows the removal of the
\* entry (line 16) and what follows one round of the cleanup loop (lines
\* 22-35), given whether the element was a Tree and how many subtree paths
\* remain to be cleaned.
delete_next_phase(phase, tree, remaining) ==
    IF phase = "remove"
    THEN (IF tree /\ remaining > 0 THEN "cleanup" ELSE "propagate")
    ELSE IF phase = "cleanup"
    THEN (IF remaining > 0 THEN "cleanup" ELSE "propagate")
    ELSE "idle"

\* GroveDb::insert(path, key, element): the parent must exist; a Tree element
\* initialises a fresh empty subtree at path ++ [key] and is stored with the
\* empty marker; propagation follows.
insert(d, subtrees, path, key, element) ==
    IF compress_subtree_key(path) \notin subtrees
    THEN [res |-> "InvalidPath", db |-> d, subtrees |-> subtrees]
    ELSE
      LET subs == IF IsTree(element)
                  THEN subtrees \cup {compress_subtree_key(path \o <<key>>)}
                  ELSE subtrees
          stored == IF IsTree(element) THEN Tree(EmptyHash) ELSE element
          prop == propagate_changes(Element_insert(d, path, key, stored), subs, path)
      IN [res |-> IF prop.ok THEN "Ok" ELSE "InvalidPath",
          db |-> prop.db, subtrees |-> subs]

\* ---------------------------------------------------- operations/aux.rs
\* The context the aux operations use: the top-level one.
RootPrefix == compress_subtree_key(<<>>)

\* meta_storage_context_optional_tx!: with a transaction the operation goes
\* through the transactional context, without one through the direct context.
\* Each returns the backend and the transaction it leaves.
grove_put_aux(d, t, viaTx, key, value) ==
    IF viaTx
    THEN [db |-> d, tx |-> tx_put_aux(t, RootPrefix, key, value)]
    ELSE [db |-> put_aux(d, RootPrefix, key, value), tx |-> t]

grove_delete_aux(d, t, viaTx, key) ==
    IF viaTx
    THEN [db |-> d, tx |-> tx_delete_aux(t, RootPrefix, key)]
    ELSE [db |-> delete_aux(d, RootPrefix, key), tx |-> t]

grove_get_aux(d, t, viaTx, key) ==
    IF viaTx THEN tx_get_aux(d, t, RootPrefix, key) ELSE get_aux(d, RootPrefix, key)

\* ----------------------------------------------------------- raw iterators
\* rocksdb's raw iterator over an ordered key space m; the cursor is None
\* (not positioned on a key) or Some(stored key).
LeastFrom(ks) ==
    IF ks = {} THEN None
    ELSE Some(CHOOSE k \in ks : \A j \in ks : j = k \/ LexLess(k, j))
DBRawIterator_seek_to_first(m) == LeastFrom(DOMAIN m)
DBRawIterator_seek(m, k) == LeastFrom({j \in DOMAIN m : j = k \/ LexLess(k, j)})
DBRawIterator_next(m, cur) ==
    IF cur = None THEN None ELSE LeastFrom({j \in DOMAIN m : LexLess(cur[1], j)})
DBRawIterator_valid(cur) == cur # None
DBRawIterator_key(cur) == cur

\* impl RawIterator for DBRawIterator: what PrefixedRocksDbStorage::raw_iter
\* returns (self.db.raw_iterator()); the context's prefix p takes no part.
direct_seek_to_first(m, p) == DBRawIterator_seek_to_first(m)
direct_next(m, p, cur) == DBRawIterator_next(m, cur)
direct_valid(p, cur) == DBRawIterator_valid(cur)
direct_key(p, cur) == DBRawIterator_key(cur)

\* PrefixedRocksDbRawIterator { prefix, raw_iterator }: what the transactional
\* context's raw_iter returns; restricted to the prefix range.
prefixed_seek_to_first(m, p) == DBRawIterator_seek(m, p)
prefixed_next(m, p, cur) == DBRawIterator_next(m, cur)
prefixed_valid(p, cur) == DBRawIterator_valid(cur) /\ HasPrefix(p, cur[1])
prefixed_key(p, cur) ==
    IF prefixed_valid(p, cur) THEN Some(StripPrefix(p, cur[1])) ELSE None

\* ------------------------------------------------------------------ state
VARIABLES
    db,        \* the backend: [main, aux, roots, meta]
    subtrees,  \* GroveDb.subtrees: the prefixes holding a subtree handle
    tx,        \* the caller's transaction, if one is open
    iter,      \* the raw iterator in use, if any
    space,     \* the key space the storage contexts are exercised on
    last,      \* the last operation run and its result
    failed,    \* whether a delete has failed part-way
    batch,     \* the batch in use, if any
    call       \* the delete in progress, when followed step by step

vars == <<db, subtrees, tx, iter, space, last, failed, batch, call>>

\* The record of an operation: its name, its result, the length of its path
\* argument, whether it went through the transaction, whether the element
\* was a Tree, the number of subtree paths a delete found, and the value a
\* read returned.
Op(op, res, depth, viaTx, tree, n, out) ==
    [op |-> op, res |-> res, depth |-> depth, viaTx |-> viaTx,
     tree |-> tree, n |-> n, out |-> out]

NoIter == [open |-> FALSE, viaTx |-> FALSE, prefix |-> <<>>, cur |-> None]

\* No batch in use; no delete in progress.
NoBatch == [open |-> FALSE, viaTx |-> FALSE, prefix |-> <<>>, ops |-> <<>>]
NoCall == [phase |-> "idle", path |-> <<>>, key |-> 0, tree |-> FALSE,
           todo |-> <<>>, n |-> 0, pre |-> EmptyDb, cached |-> {}]

\* After construction: an empty backend, the top-level subtree's handle.
Init ==
    /\ db = EmptyDb
    /\ subtrees = {compress_subtree_key(<<>>)}
    /\ tx = NoTx
    /\ iter = NoIter
    /\ space = "main"
    /\ last = Op("init", "Ok", 0, FALSE, FALSE, 0, None)
    /\ failed = FALSE
    /\ batch = NoBatch
    /\ call = NoCall

\* The elements an insert may carry.
Elements == {Item(1), Reference(<<1>>, 1), Tree(EmptyHash)}

\* The keys the top-level subtree is given.
TopKeys == {1}

\* Which clear() of a delete's cleanup the backend fails (0: none).
FailPoints == {0, 1, 2}

Insert(path, key, element) ==
    /\ ~failed
    /\ Cardinality(DOMAIN db.main) < MaxEntries
    /\ compress_subtree_key(path) \in subtrees
    /\ key \notin SubtreeKeys(db, path)
    /\ path = <<>> => key \in TopKeys
    /\ IsTree(element) => Len(path) < MaxDepth
    /\ \E r \in {insert(db, subtrees, path, key, element)} :
        /\ db' = r.db
        /\ subtrees' = r.subtrees
        /\ last' = Op("insert", r.res, Len(path), FALSE, IsTree(element), 0, None)
    /\ UNCHANGED <<tx, iter, space, failed, batch, call>>

Delete(path, key, failAt) ==
    /\ ~failed
    /\ \E r \in {delete(db, subtrees, path, key, failAt)} :
        /\ db' = r.db
        /\ subtrees' = r.subtrees
        /\ last' = Op("delete", r.res, Len(path), FALSE, r.tree, r.n, None)
        /\ failed' = (r.res = "CorruptedData")
    /\ UNCHANGED <<tx, iter, space, batch, call>>

\* delete followed step by step.  First step, lines 5-21: the lookup, the
\* test for an empty path, the parent's handle, Element::delete and, for a
\* Tree, find_subtrees.  fail: Element::delete returns an error, which the ?
\* of line 16 hands to the caller.
DeleteBegin(path, key, fail) ==
    /\ ~failed
    /\ call.phase = "idle"
    /\ LET got == get_raw(db, subtrees, path, key) IN
       IF ~got.ok \/ path = <<>> \/ compress_subtree_key(path) \notin subtrees
       THEN /\ ~fail
            /\ last' = Op("delete", "InvalidPath", Len(path), FALSE,
                          got.ok /\ IsTree(got.element[1]), 0, None)
            /\ UNCHANGED <<db, subtrees, call>>
       ELSE IF fail
       THEN /\ last' = Op("delete", "Error", Len(path), FALSE,
                          IsTree(got.element[1]), 0, None)
            /\ UNCHANGED <<db, subtrees, call>>
       ELSE \E d1 \in {Element_delete(db, path, key)} :
            \E found \in {IF IsTree(got.element[1])
                          THEN find_subtrees(d1, subtrees, path \o <<key>>)
                          ELSE [ok |-> TRUE, result |-> <<>>]} :
                /\ db' = d1
                /\ subtrees' = subtrees
                /\ IF found.ok
                   THEN /\ call' = [phase |-> delete_next_phase("remove",
                                        IsTree(got.element[1]), Len(found.result)),
                                    path |-> path, key |-> key,
                                    tree |-> IsTree(got.element[1]),
                                    todo |-> found.result, n |-> Len(found.result),
                                    pre |-> db, cached |-> subtrees]
                        /\ last' = Op("delete_remove", "Ok", Len(path), FALSE,
                                      IsTree(got.element[1]), Len(found.result), None)
                   ELSE /\ call' = NoCall
                        /\ last' = Op("delete", "InvalidPath", Len(path), FALSE,
                                      TRUE, Len(found.result), None)
    /\ UNCHANGED <<tx, iter, space, failed, batch>>

\* One round of the loop of lines 22-35: the next subtree path's handle is
\* taken out of self.subtrees and cleared; fail: clear() returns an error.
DeleteCleanup(fail) ==
    /\ call.phase = "cleanup"
    /\ call.todo # <<>>
    /\ LET prefix == compress_subtree_key(Head(call.todo))
           rest == Tail(call.todo)
       IN IF prefix \notin subtrees
          THEN /\ ~fail
               /\ call' = [call EXCEPT !.todo = rest,
                              !.phase = delete_next_phase("cleanup", TRUE, Len(rest))]
               /\ last' = Op("delete_cleanup", "Ok", Len(call.path), FALSE, TRUE, call.n, None)
               /\ UNCHANGED <<db, subtrees, failed>>
          ELSE /\ subtrees' = subtrees \ {prefix}
               /\ IF fail
                  THEN /\ db' = db
                       /\ failed' = TRUE
                       /\ call' = NoCall
                       /\ last' = Op("delete", "CorruptedData", Len(call.path), FALSE,
                                     TRUE, call.n, None)
                  ELSE /\ db' = clear(db, prefix)
                       /\ failed' = FALSE
                       /\ call' = [call EXCEPT !.todo = rest,
                                      !.phase = delete_next_phase("cleanup", TRUE, Len(rest))]
                       /\ last' = Op("delete_cleanup", "Ok", Len(call.path), FALSE,
                                     TRUE, call.n, None)
    /\ UNCHANGED <<tx, iter, space, batch>>

\* Lines 37-38: propagate_changes(path), then Ok(()).
DeletePropagate ==
    /\ call.phase = "propagate"
    /\ \E prop \in {propagate_changes(db, subtrees, call.path)} :
        /\ db' = prop.db
        /\ last' = Op("delete", IF prop.ok THEN "Ok" ELSE "InvalidPath",
                      Len(call.path), FALSE, call.tree, call.n, None)
    /\ call' = NoCall
    /\ UNCHANGED <<subtrees, tx, iter, space, failed, batch>>

\* A subtree handle's own aux data, written through its direct context.
SubtreePutAux(path, key, value) ==
    /\ ~failed
    /\ path # <<>>
    /\ Cardinality(DOMAIN db.aux) < MaxAux
    /\ compress_subtree_key(path) \in subtrees
    /\ db' = put_aux(db, compress_subtree_key(path), <<key>>, value)
    /\ last' = Op("subtree_put_aux", "Ok", Len(path), FALSE, FALSE, 0, None)
    /\ UNCHANGED <<subtrees, tx, iter, space, failed, batch, call>>

\* Bounds on what the storage-level actions store.
StoredCount(d) ==
    Cardinality(DOMAIN d.main) + Cardinality(DOMAIN d.aux)
        + Cardinality(DOMAIN d.roots) + Cardinality(DOMAIN d.meta)
WriteCount(t) ==
    Cardinality(DOMAIN t.w.main) + Cardinality(DOMAIN t.w.aux)
        + Cardinality(DOMAIN t.w.roots) + Cardinality(DOMAIN t.w.meta)
Room(d2) == StoredCount(d2) <= MaxStored
AuxRoom(d2) == Cardinality(RangeOf(d2.aux, RootPrefix)) <= MaxStored
TxRoom(t2) == WriteCount(t2) <= MaxTxWrites

PutAux(key, value, viaTx) ==
    /\ viaTx => tx.open
    /\ \E r \in {grove_put_aux(db, tx, viaTx, <<key>>, value)} :
        /\ AuxRoom(r.db) /\ TxRoom(r.tx)
        /\ db' = r.db
        /\ tx' = r.tx
    /\ last' = Op("put_aux", "Ok", 0, viaTx, FALSE, 0, None)
    /\ UNCHANGED <<subtrees, iter, space, failed, batch, call>>

DeleteAux(key, viaTx) ==
    /\ viaTx => tx.open
    /\ \E r \in {grove_delete_aux(db, tx, viaTx, <<key>>)} :
        /\ TxRoom(r.tx)
        /\ db' = r.db
        /\ tx' = r.tx
    /\ last' = Op("delete_aux", "Ok", 0, viaTx, FALSE, 0, None)
    /\ UNCHANGED <<subtrees, iter, space, failed, batch, call>>

GetAux(key, viaTx) ==
    /\ viaTx => tx.open
    /\ last' = Op("get_aux", "Ok", 0, viaTx, FALSE, 0,
                  Some(grove_get_aux(db, tx, viaTx, <<key>>)))
    /\ UNCHANGED <<db, subtrees, tx, iter, space, failed, batch, call>>

\* Operations issued through a direct context with prefix p.
CtxPut(cf, p, key, value) ==
    /\ ~iter.open
    /\ \E d2 \in {direct_put(db, cf, p, key, value)} :
        /\ Room(d2)
        /\ db' = d2
    /\ last' = Op("put", "Ok", 0, FALSE, FALSE, 0, None)
    /\ UNCHANGED <<subtrees, tx, iter, space, failed, batch, call>>

CtxDelete(cf, p, key) ==
    /\ ~iter.open
    /\ db' = direct_delete(db, cf, p, key)
    /\ last' = Op("delete_key", "Ok", 0, FALSE, FALSE, 0, None)
    /\ UNCHANGED <<subtrees, tx, iter, space, failed, batch, call>>

\* Operations issued through a transactional context with prefix p.
TxPut(cf, p, key, value) ==
    /\ tx.open
    /\ ~iter.open
    /\ \E t2 \in {transactional_put(tx, cf, p, key, value)} :
        /\ TxRoom(t2)
        /\ tx' = t2
    /\ last' = Op("put", "Ok", 0, TRUE, FALSE, 0, None)
    /\ UNCHANGED <<db, subtrees, iter, space, failed, batch, call>>

TxDelete(cf, p, key) ==
    /\ tx.open
    /\ ~iter.open
    /\ \E t2 \in {transactional_delete(tx, cf, p, key)} :
        /\ TxRoom(t2)
        /\ tx' = t2
    /\ last' = Op("delete_key", "Ok", 0, TRUE, FALSE, 0, None)
    /\ UNCHANGED <<db, subtrees, iter, space, failed, batch, call>>

StartTransaction ==
    /\ ~tx.open
    /\ ~iter.open
    /\ tx' = transaction_begin
    /\ last' = Op("start_transaction", "Ok", 0, TRUE, FALSE, 0, None)
    /\ UNCHANGED <<db, subtrees, iter, space, failed, batch, call>>

CommitTransaction ==
    /\ tx.open
    /\ ~iter.open
    /\ db' = transaction_commit(db, tx)
    /\ tx' = NoTx
    /\ last' = Op("commit_transaction", "Ok", 0, TRUE, FALSE, 0, None)
    /\ UNCHANGED <<subtrees, iter, space, failed, batch, call>>

\* Rolling back, or dropping the transaction without commit.
RollbackTransaction ==
    /\ tx.open
    /\ ~iter.open
    /\ tx' = NoTx
    /\ last' = Op("rollback_transaction", "Ok", 0, TRUE, FALSE, 0, None)
    /\ UNCHANGED <<db, subtrees, iter, space, failed, batch, call>>

\* new_batch() on a direct context with prefix p.
NewBatch(p) ==
    /\ ~batch.open
    /\ batch' = new_batch(p)
    /\ last' = Op("new_batch", "Ok", 0, FALSE, FALSE, 0, None)
    /\ UNCHANGED <<db, subtrees, tx, iter, space, failed, call>>

\* put / put_aux / put_root on the batch of a direct context.
BatchPut(cf, key, value) ==
    /\ batch.open /\ ~batch.viaTx
    /\ Len(batch.ops) < MaxBatch
    /\ batch' = batch_put_in(batch, cf, key, value)
    /\ last' = Op("batch_put", "Ok", 0, FALSE, FALSE, 0, None)
    /\ UNCHANGED <<db, subtrees, tx, iter, space, failed, call>>

\* delete / delete_aux / delete_root on the batch of a direct context.
BatchDelete(cf, key) ==
    /\ batch.open /\ ~batch.viaTx
    /\ Len(batch.ops) < MaxBatch
    /\ batch' = batch_delete_in(batch, cf, key)
    /\ last' = Op("batch_delete", "Ok", 0, FALSE, FALSE, 0, None)
    /\ UNCHANGED <<db, subtrees, tx, iter, space, failed, call>>

\* commit_batch(batch) on the direct context; fail: the backend's write
\* returns an error.
CommitBatch(fail) ==
    /\ batch.open /\ ~batch.viaTx
    /\ \E r \in {commit_batch(db, batch, fail)} :
        /\ db' = r.db
        /\ last' = Op("commit_batch", IF r.ok THEN "Ok" ELSE "StorageError",
                      0, FALSE, FALSE, Len(batch.ops), None)
    /\ batch' = NoBatch
    /\ UNCHANGED <<subtrees, tx, iter, space, failed, call>>

\* The batch goes out of scope without commit_batch.
DropBatch ==
    /\ batch.open
    /\ batch' = NoBatch
    /\ last' = Op("drop_batch", "Ok", 0, batch.viaTx, FALSE, Len(batch.ops), None)
    /\ UNCHANGED <<db, subtrees, tx, iter, space, failed, call>>

\* new_batch() on a transactional context with prefix p.
TxNewBatch(p) ==
    /\ tx.open
    /\ ~batch.open
    /\ batch' = tx_new_batch(p)
    /\ last' = Op("new_batch", "Ok", 0, TRUE, FALSE, 0, None)
    /\ UNCHANGED <<db, subtrees, tx, iter, space, failed, call>>

TxBatchPut(cf, key, value) ==
    /\ tx.open
    /\ batch.open /\ batch.viaTx
    /\ \E t2 \in {tx_batch_put(tx, batch, cf, key, value)} :
        /\ TxRoom(t2)
        /\ tx' = t2
    /\ last' = Op("batch_put", "Ok", 0, TRUE, FALSE, 0, None)
    /\ UNCHANGED <<db, subtrees, iter, space, failed, batch, call>>

TxBatchDelete(cf, key) ==
    /\ tx.open
    /\ batch.open /\ batch.viaTx
    /\ \E t2 \in {tx_batch_delete(tx, batch, cf, key)} :
        /\ TxRoom(t2)
        /\ tx' = t2
    /\ last' = Op("batch_delete", "Ok", 0, TRUE, FALSE, 0, None)
    /\ UNCHANGED <<db, subtrees, iter, space, failed, batch, call>>

\* commit_batch(batch) on the transactional context.
TxCommitBatch ==
    /\ tx.open
    /\ batch.open /\ batch.viaTx
    /\ \E r \in {tx_commit_batch(db, tx)} :
        /\ db' = r.db
        /\ tx' = r.tx
        /\ last' = Op("commit_batch", IF r.ok THEN "Ok" ELSE "StorageError",
                      0, TRUE, FALSE, 0, None)
    /\ batch' = NoBatch
    /\ UNCHANGED <<subtrees, iter, space, failed, call>>

\* The main space as the iterator of a context sees it.
IterView(viaTx) == IF viaTx THEN ApplyWrites(db.main, tx.w.main) ELSE db.main

\* raw_iter() on a context with prefix p: a new, unpositioned cursor.
RawIter(p, viaTx) ==
    /\ viaTx => tx.open
    /\ iter' = [open |-> TRUE, viaTx |-> viaTx, prefix |-> p, cur |-> None]
    /\ last' = Op("raw_iter", "Ok", 0, viaTx, FALSE, 0, None)
    /\ UNCHANGED <<db, subtrees, tx, space, failed, batch, call>>

SeekToFirst ==
    /\ iter.open
    /\ iter' = [iter EXCEPT !.cur =
                  IF iter.viaTx
                  THEN prefixed_seek_to_first(IterView(TRUE), iter.prefix)
                  ELSE direct_seek_to_first(IterView(FALSE), iter.prefix)]
    /\ last' = Op("seek_to_first", "Ok", 0, iter.viaTx, FALSE, 0, None)
    /\ UNCHANGED <<db, subtrees, tx, space, failed, batch, call>>

IterNext ==
    /\ iter.open
    /\ iter.cur # None
    /\ iter' = [iter EXCEPT !.cur =
                  IF iter.viaTx
                  THEN prefixed_next(IterView(TRUE), iter.prefix, iter.cur)
                  ELSE direct_next(IterView(FALSE), iter.prefix, iter.cur)]
    /\ last' = Op("next", "Ok", 0, iter.viaTx, FALSE, 0, None)
    /\ UNCHANGED <<db, subtrees, tx, space, failed, batch, call>>

DropIter ==
    /\ iter.open
    /\ iter' = NoIter
    /\ last' = Op("drop_iter", "Ok", 0, iter.viaTx, FALSE, 0, None)
    /\ UNCHANGED <<db, subtrees, tx, space, failed, batch, call>>

\* What the iterator in use answers.
IterValid ==
    IF iter.viaTx THEN prefixed_valid(iter.prefix, iter.cur)
    ELSE direct_valid(iter.prefix, iter.cur)
IterKey ==
    IF iter.viaTx THEN prefixed_key(iter.prefix, iter.cur)
    ELSE direct_key(iter.prefix, iter.cur)

\* ---------------------------------------------------------- specifications
\* The paths a delete is tried on: the existing subtrees and the paths one
\* segment beyond them (deeper missing paths fail the same way).
DeletePaths == {q \in Paths : q = <<>> \/ compress_subtree_key(Front(q)) \in subtrees}

\* The coordinator driven without backend faults.
Next ==
    \/ \E path \in Paths, key \in Seg, element \in Elements : Insert(path, key, element)
    \/ \E path \in DeletePaths, key \in Seg : Delete(path, key, 0)
    \/ \E path \in Paths : SubtreePutAux(path, 1, 1)

Spec == Init /\ [][Next]_vars

\* The coordinator in its environment: the backend may fail a clear() during
\* a delete's cleanup (the model stops at the state the failed delete
\* leaves), and the caller may hold a transaction.
NextEnv ==
    \/ Next
    \/ \E path \in DeletePaths, key \in Seg, failAt \in FailPoints \ {0} :
          Delete(path, key, failAt)
    \/ StartTransaction
    \/ CommitTransaction
    \/ RollbackTransaction

SpecEnv == Init /\ [][NextEnv]_vars

\* The storage contexts driven directly, one key space per behaviour, with
\* two subtrees' prefixes and two keys; the aux operations of the coordinator
\* run on the aux space.
CtxPrefixes == {compress_subtree_key(<<>>), compress_subtree_key(<<1>>)}
CtxKeys == {<<k>> : k \in Seg}

InitCtx ==
    /\ db = EmptyDb
    /\ subtrees = {compress_subtree_key(<<>>)}
    /\ tx = NoTx
    /\ iter = NoIter
    /\ space \in Spaces
    /\ last = Op("init", "Ok", 0, FALSE, FALSE, 0, None)
    /\ failed = FALSE
    /\ batch = NoBatch
    /\ call = NoCall

NextCtx ==
    \/ \E p \in CtxPrefixes, key \in CtxKeys, value \in Vals : CtxPut(space, p, key, value)
    \/ \E p \in CtxPrefixes, key \in CtxKeys : CtxDelete(space, p, key)
    \/ \E p \in CtxPrefixes, key \in CtxKeys, value \in Vals : TxPut(space, p, key, value)
    \/ \E p \in CtxPrefixes, key \in CtxKeys : TxDelete(space, p, key)
    \/ \E key \in Seg, value \in Vals, viaTx \in BOOLEAN :
          space = "aux" /\ PutAux(key, value, viaTx)
    \/ \E key \in Seg, viaTx \in BOOLEAN : space = "aux" /\ DeleteAux(key, viaTx)
    \/ \E key \in Seg, viaTx \in BOOLEAN : space = "aux" /\ GetAux(key, viaTx)
    \/ StartTransaction
    \/ CommitTransaction
    \/ RollbackTransaction

SpecCtx == InitCtx /\ [][NextCtx]_vars

\* Raw iteration over the main space through either context variant.
NextIter ==
    \/ \E p \in CtxPrefixes, key \in CtxKeys : CtxPut("main", p, key, 1)
    \/ \E p \in CtxPrefixes, key \in CtxKeys : TxPut("main", p, key, 1)
    \/ StartTransaction
    \/ CommitTransaction
    \/ \E p \in CtxPrefixes, viaTx \in BOOLEAN : RawIter(p, viaTx)
    \/ SeekToFirst
    \/ IterNext
    \/ DropIter

SpecIter == Init /\ [][NextIter]_vars


\* Batches of the direct and of the transactional context.  The backend is
\* populated through a direct context first; a transaction's context and its
\* batch borrow the transaction, which therefore outlives them.
BatchKeys == {<<1>>}
BatchPrefixes == {compress_subtree_key(<<1>>)}

NextBatch ==
    \/ \E cf \in BatchSpaces, p \in BatchPrefixes, key \in BatchKeys :
          ~batch.open /\ ~tx.open /\ CtxPut(cf, p, key, 1)
    \/ \E p \in BatchPrefixes : NewBatch(p)
    \/ \E cf \in BatchSpaces, key \in BatchKeys, value \in Vals : BatchPut(cf, key, value)
    \/ \E cf \in BatchSpaces, key \in BatchKeys : BatchDelete(cf, key)
    \/ \E fail \in BOOLEAN : CommitBatch(fail)
    \/ DropBatch
    \/ ~batch.open /\ StartTransaction
    \/ \E p \in BatchPrefixes : TxNewBatch(p)
    \/ \E cf \in BatchSpaces, key \in BatchKeys, value \in Vals : TxBatchPut(cf, key, value)
    \/ \E cf \in BatchSpaces, key \in BatchKeys : TxBatchDelete(cf, key)
    \/ TxCommitBatch
    \/ ~batch.open /\ CommitTransaction
    \/ ~batch.open /\ RollbackTransaction

SpecBatch == Init /\ [][NextBatch]_vars


\* The aux operations of the coordinator on a grove with contents: a
\* top-level Tree, entries in its subtree, aux data kept by subtree handles.
AuxPaths == {<<>>, <<1>>}

NextAux ==
    \/ \E path \in AuxPaths, key \in Seg, element \in Elements : Insert(path, key, element)
    \/ \E path \in AuxPaths : SubtreePutAux(path, 1, 1)
    \/ \E key \in Seg, value \in Vals, viaTx \in BOOLEAN : PutAux(key, value, viaTx)
    \/ \E key \in Seg, viaTx \in BOOLEAN : DeleteAux(key, viaTx)
    \/ \E key \in Seg, viaTx \in BOOLEAN : GetAux(key, viaTx)
    \/ StartTransaction
    \/ CommitTransaction
    \/ RollbackTransaction

SpecAux == Init /\ [][NextAux]_vars


\* The coordinator with each delete followed step by step; clear() may fail.
NextSteps ==
    \/ \E path \in Paths, key \in Seg, element \in Elements :
          call.phase = "idle" /\ Insert(path, key, element)
    \/ \E path \in DeletePaths, key \in Seg, fail \in BOOLEAN : DeleteBegin(path, key, fail)
    \/ \E fail \in BOOLEAN : DeleteCleanup(fail)
    \/ DeletePropagate

SpecSteps == Init /\ [][NextSteps]_vars

\* ------------------------------------------------------------- properties
\* The element stored at (path, key) in backend d, as an Option.
ElementAt(d, path, key) == get(d, compress_subtree_key(path), <<key>>)

\* path names a subtree of d: every segment is a Tree element of the subtree
\* named by the segments before it.
Resolves(d, path) ==
    \A i \in 1..Len(path) :
        LET e == ElementAt(d, SubSeq(path, 1, i - 1), path[i])
        IN e # None /\ IsTree(e[1])

\* The subtrees of d nested under root through Tree elements, root included.
Descendants(d, root) == {q \in Paths : HasPrefix(root, q) /\ Resolves(d, q)}

\* The main, aux and roots ranges of a subtree.
Ranges(d, path) ==
    LET p == compress_subtree_key(path)
    IN <<RangeOf(d.main, p), RangeOf(d.aux, p), RangeOf(d.roots, p)>>
RangesEmpty(d, path) == Ranges(d, path) = <<{}, {}, {}>>
RangesSame(d, e, path) ==
    LET p == compress_subtree_key(path) IN
    \A cf \in {"main", "aux", "roots"} :
        \A k \in RangeOf(d[cf], p) \cup RangeOf(e[cf], p) :
            MapGet(d[cf], k) = MapGet(e[cf], k)

\* C1: a successful delete of a Tree at (path, key) leaves the main, aux and
\* roots ranges of every subtree nested under path ++ [key] (that subtree
\* included) empty, and the entry (path, key) absent from the subtree at path.
C1_RecursiveClosure ==
    [][(last'.op = "delete" /\ last'.res = "Ok" /\ last'.tree) =>
        \A path \in Paths, key \in Seg :
            (last'.depth = Len(path) /\ Delete(path, key, 0)) =>
                /\ \A q \in Descendants(db, path \o <<key>>) : RangesEmpty(db', q)
                /\ ElementAt(db', path, key) = None]_vars

\* A Tree with a nested subtree has been deleted: find_subtrees returned the
\* removed subtree and at least one descendant.
C1_Witness ==
    last.op = "delete" /\ last.res = "Ok" /\ last.tree /\ last.n >= 2

\* C2: delete with an empty path fails with InvalidPath for every key and
\* changes neither the backend (so no subtree's contents and not the top-level
\* root hash) nor the handle cache.
C2_RootLeavesProtected ==
    [][last'.op = "delete" =>
        \A key \in Seg :
            Delete(<<>>, key, 0) =>
                /\ last'.res = "InvalidPath"
                /\ db' = db
                /\ subtrees' = subtrees
                /\ root_hash(db', <<>>) = root_hash(db, <<>>)]_vars

\* A delete of an existing top-level Tree entry was refused.
C2_Witness ==
    /\ last.op = "delete" /\ last.depth = 0 /\ last.res = "InvalidPath" /\ last.tree
    /\ SubtreeKeys(db, <<>>) # {}

\* C3: delete(path, key) fails with InvalidPath and changes nothing when path
\* names no subtree or the subtree at path has no entry under key.
C3_MissingTargetRejected ==
    [][last'.op = "delete" =>
        LET Rejected == /\ last'.res = "InvalidPath"
                        /\ db' = db
                        /\ subtrees' = subtrees
        IN Rejected \/
            \A path \in Paths, key \in Seg :
                (/\ last'.depth = Len(path)
                 /\ (~Resolves(db, path) \/ ElementAt(db, path, key) = None)
                 /\ Delete(path, key, 0)) => Rejected]_vars

\* A delete below the top level was refused while the grove holds a nested
\* subtree with entries.
C3_Witness ==
    /\ last.op = "delete" /\ last.depth >= 1 /\ last.res = "InvalidPath" /\ ~last.tree
    /\ \E k \in Seg : SubtreeKeys(db, <<k>>) # {}

\* C4: in every state reached by successful inserts and deletes, each Tree
\* element stored at (p, k) of a subtree reachable from the root carries the
\* current root hash of the subtree at p ++ [k].
C4_HashConsistency ==
    \A path \in Paths, k \in Seg :
        (Len(path) < MaxDepth /\ Resolves(db, path)) =>
            LET e == ElementAt(db, path, k)
            IN (e # None /\ IsTree(e[1])) => e[1][2] = root_hash(db, path \o <<k>>)

\* A delete two levels down has succeeded and the top-level Tree entries
\* still carry non-empty hashes.
C4_Witness ==
    /\ last.op = "delete" /\ last.res = "Ok" /\ last.depth >= 2
    /\ \E k \in Seg :
        LET e == ElementAt(db, <<>>, k)
        IN e # None /\ IsTree(e[1]) /\ e[1][2] # EmptyHash

\* C5: when the clear() of a subtree fails during a delete, the delete fails
\* with CorruptedData and leaves no partial state: the Tree entry is still in
\* the parent, no nested subtree's storage is cleared and no nested subtree's
\* handle is evicted.
C5_NoPartialStateOnCleanupFailure ==
    [][last'.res = "CorruptedData" =>
        \A path \in Paths, key \in Seg, failAt \in FailPoints \ {0} :
            Delete(path, key, failAt) =>
                /\ ElementAt(db', path, key) = ElementAt(db, path, key)
                /\ \A q \in Descendants(db, path \o <<key>>) :
                    /\ RangesSame(db, db', q)
                    /\ compress_subtree_key(q) \in subtrees =>
                          compress_subtree_key(q) \in subtrees']_vars

\* C8: while the caller's transaction is open, what delete writes goes into
\* the transaction: the backend is unchanged by the delete.
C8_DeleteWritesThroughTransaction ==
    [][(tx.open /\ last'.op = "delete") => db' = db]_vars

\* The prefixed spaces.
PrefixedSpaces == {"main", "aux", "roots"}

\* C6: the meta space is unprefixed in both context variants: a value put
\* under k through prefix p is what get_meta(k) returns through every prefix
\* q, and a delete_meta(k) through p removes it for every q.
C6_MetaNotPrefixed ==
    [][(space = "meta" /\ last'.op \in {"put", "delete_key"}) =>
        \A p \in CtxPrefixes, k \in CtxKeys :
            /\ \A v \in Vals :
                /\ CtxPut("meta", p, k, v) =>
                    \A q \in CtxPrefixes : direct_get(db', "meta", q, k) = Some(v)
                /\ TxPut("meta", p, k, v) =>
                    \A q \in CtxPrefixes :
                        transactional_get(db', tx', "meta", q, k) = Some(v)
            /\ CtxDelete("meta", p, k) =>
                \A q \in CtxPrefixes : direct_get(db', "meta", q, k) = None
            /\ TxDelete("meta", p, k) =>
                \A q \in CtxPrefixes :
                    transactional_get(db', tx', "meta", q, k) = None]_vars

\* C7: a put or delete through the transactional context (and an aux
\* operation of the coordinator given the transaction) is read back through
\* the same transaction, leaves every direct read as it was until the
\* transaction commits, and a rollback (or drop) discards the writes and
\* leaves the backend as it was.
C7_TransactionIsolation ==
    [][(space \in PrefixedSpaces /\ last'.viaTx) =>
        /\ \A p \in CtxPrefixes, k \in CtxKeys :
            /\ \A v \in Vals :
                (last'.op = "put" /\ TxPut(space, p, k, v)) =>
                    /\ transactional_get(db', tx', space, p, k) = Some(v)
                    /\ db' = db
            /\ (last'.op = "delete_key" /\ TxDelete(space, p, k)) =>
                /\ transactional_get(db', tx', space, p, k) = None
                /\ db' = db
        /\ \A k \in Seg :
            /\ \A v \in Vals :
                (last'.op = "put_aux" /\ PutAux(k, v, TRUE)) =>
                    /\ grove_get_aux(db', tx', TRUE, <<k>>) = Some(v)
                    /\ grove_get_aux(db', tx', FALSE, <<k>>) = grove_get_aux(db, tx, FALSE, <<k>>)
                    /\ db' = db
            /\ (last'.op = "delete_aux" /\ DeleteAux(k, TRUE)) =>
                /\ grove_get_aux(db', tx', TRUE, <<k>>) = None
                /\ db' = db
        /\ (last'.op = "rollback_transaction" /\ RollbackTransaction) =>
            /\ db' = db
            /\ tx' = NoTx]_vars

\* The open transaction holds a put that no direct read sees.
C7_Witness ==
    /\ space \in PrefixedSpaces
    /\ tx.open
    /\ \E p \in CtxPrefixes, k \in CtxKeys :
        /\ transactional_get(db, tx, space, p, k) # None
        /\ direct_get(db, space, p, k) = None

\* C9: in the main, aux and roots spaces a key k issued through prefix p
\* reaches the backend as p || k: a put is read back through p, and a put or
\* delete through p changes no read through another prefix q of the same
\* length, in both context variants.
C9_PrefixIsolation ==
    [][(space \in PrefixedSpaces /\ last'.op \in {"put", "delete_key"}) =>
        \A p \in CtxPrefixes, k \in CtxKeys :
            LET others == {q \in CtxPrefixes \ {p} : Len(q) = Len(p)}
                DirectFrame == \A q \in others, j \in CtxKeys :
                    direct_get(db', space, q, j) = direct_get(db, space, q, j)
                TxFrame == \A q \in others, j \in CtxKeys :
                    transactional_get(db', tx', space, q, j)
                        = transactional_get(db, tx, space, q, j)
            IN
            /\ \A v \in Vals :
                /\ (last'.op = "put" /\ ~last'.viaTx /\ CtxPut(space, p, k, v)) =>
                    /\ db'[space] = MapPut(db[space], p \o k, v)
                    /\ direct_get(db', space, p, k) = Some(v)
                    /\ DirectFrame
                /\ (last'.op = "put" /\ last'.viaTx /\ TxPut(space, p, k, v)) =>
                    /\ tx'.w[space] = MapPut(tx.w[space], p \o k, Some(v))
                    /\ transactional_get(db', tx', space, p, k) = Some(v)
                    /\ TxFrame
            /\ (last'.op = "delete_key" /\ ~last'.viaTx /\ CtxDelete(space, p, k)) =>
                /\ db'[space] = MapDel(db[space], p \o k)
                /\ DirectFrame
            /\ (last'.op = "delete_key" /\ last'.viaTx /\ TxDelete(space, p, k)) =>
                /\ tx'.w[space] = MapPut(tx.w[space], p \o k, None)
                /\ TxFrame]_vars

\* A put went through one prefix while the other prefix holds the same key.
C9_Witness ==
    /\ space \in PrefixedSpaces
    /\ last.op = "put"
    /\ \E k \in CtxKeys :
        \A p \in CtxPrefixes : direct_get(db, space, p, k) # None

\* C10: a raw iterator of a context with prefix p stays in p's range:
\* seek_to_first positions at the first stored key >= p, valid is true exactly
\* while the cursor is on a key beginning with p, and key yields the stored
\* key with p stripped.
C10_RawIterRestrictedToPrefix ==
    iter.open =>
        /\ last.op = "seek_to_first" =>
              iter.cur = LeastFrom({j \in DOMAIN IterView(iter.viaTx) :
                                      j = iter.prefix \/ LexLess(iter.prefix, j)})
        /\ IterValid = (iter.cur # None /\ HasPrefix(iter.prefix, iter.cur[1]))
        /\ IterValid => IterKey = Some(StripPrefix(iter.prefix, iter.cur[1]))

\* The index of the last write of ops to key k of column family cf (0: none).
LastWrite(ops, cf, k) ==
    LET hits == {i \in 1..Len(ops) : ops[i][2] = cf /\ ops[i][3] = k}
    IN IF hits = {} THEN 0 ELSE CHOOSE i \in hits : \A j \in hits : j <= i

\* What key k of cf holds once every write of ops has been made on d.
AfterWrites(d, ops, cf, k) ==
    LET i == LastWrite(ops, cf, k) IN
    IF i = 0 THEN MapGet(d[cf], k)
    ELSE IF ops[i][1] = "put" THEN Some(ops[i][4]) ELSE None

\* The stored keys the contexts of the batch specification can name.
BatchStoredKeys == {make_prefixed_key(p, k) : p \in CtxPrefixes, k \in BatchKeys}

\* C11: a put or delete staged on a direct context's batch changes no read;
\* commit_batch either makes every staged write (each key then holds what the
\* last write to it said) or, when the backend's write fails, none of them;
\* a batch dropped without commit_batch changes nothing.
C11_DirectBatchAtomicity ==
    [][(~last'.viaTx /\ last'.op \in {"batch_put", "batch_delete", "commit_batch", "drop_batch"}) =>
        /\ last'.op \in {"batch_put", "batch_delete", "drop_batch"} =>
            \A cf \in BatchSpaces, p \in CtxPrefixes, k \in BatchKeys :
                direct_get(db', cf, p, k) = direct_get(db, cf, p, k)
        /\ last'.op = "commit_batch" =>
            \/ /\ last'.res = "Ok"
               /\ \A cf \in BatchSpaces, k \in BatchStoredKeys :
                    MapGet(db'[cf], k) = AfterWrites(db, batch.ops, cf, k)
            \/ /\ last'.res # "Ok"
               /\ db' = db]_vars

\* A batch of two writes or more to two column families was committed.
C11_Witness ==
    /\ last.op = "commit_batch" /\ last.res = "Ok" /\ ~last.viaTx /\ last.n >= 2
    /\ Cardinality({cf \in BatchSpaces : db[cf] # EmptyMap}) >= 2

\* C18: on a transactional context new_batch hands back the context and
\* changes nothing; a write through the batch is the context's own write to
\* the transaction, read back through the transaction at once; commit_batch
\* succeeds and changes neither the transaction nor the backend, which the
\* writes reach only when the transaction commits.
C18_TxBatchIsShim ==
    [][(last'.viaTx /\ last'.op \in {"new_batch", "batch_put", "batch_delete", "commit_batch"}) =>
        /\ db' = db
        /\ last'.op = "new_batch" => (tx' = tx /\ batch'.ops = <<>>)
        /\ last'.op = "commit_batch" => (tx' = tx /\ last'.res = "Ok")
        /\ \A cf \in BatchSpaces, k \in BatchKeys :
            /\ \A v \in Vals :
                (last'.op = "batch_put" /\ TxBatchPut(cf, k, v)) =>
                    /\ tx' = transactional_put(tx, cf, batch.prefix, k, v)
                    /\ transactional_get(db', tx', cf, batch.prefix, k) = Some(v)
                    /\ direct_get(db', cf, batch.prefix, k) = direct_get(db, cf, batch.prefix, k)
            /\ (last'.op = "batch_delete" /\ TxBatchDelete(cf, k)) =>
                    /\ tx' = transactional_delete(tx, cf, batch.prefix, k)
                    /\ transactional_get(db', tx', cf, batch.prefix, k) = None]_vars

\* commit_batch has returned on a transactional context whose transaction
\* holds a write the backend does not have.
C18_Witness ==
    /\ last.op = "commit_batch" /\ last.viaTx /\ tx.open
    /\ transaction_commit(db, tx) # db

\* The recursive-delete scenario run from backend d and handle cache st:
\* path -> t -> u -> w = Item is built by three inserts, then (path, t) is
\* deleted.
RecursiveDeleteScenario(d, st, path, t, u, w) ==
    LET a == insert(d, st, path, t, Tree(EmptyHash))
        b == insert(a.db, a.subtrees, path \o <<t>>, u, Tree(EmptyHash))
        c == insert(b.db, b.subtrees, path \o <<t, u>>, w, Item(1))
        e == delete(c.db, c.subtrees, path, t, 0)
    IN [built |-> a.res = "Ok" /\ b.res = "Ok" /\ c.res = "Ok",
        before |-> c.db, res |-> e.res, db |-> e.db]

\* The scenario can start at path: its subtree exists and has no entry t.
ScenarioStartsAt(path, t) ==
    /\ ~failed
    /\ Len(path) + 2 <= MaxDepth
    /\ compress_subtree_key(path) \in subtrees
    /\ t \notin SubtreeKeys(db, path)

\* The key the scenario's Item is stored under.
ScenarioItemKeys == {1}

\* C12 as stated: built at the top level, delete([], t) succeeds, empties the
\* main ranges of [t] and [t, u] and brings the top-level root hash back to
\* its value before the inserts.
C12_TopLevelRecursiveDelete ==
    \A t \in Seg, u \in Seg, w \in ScenarioItemKeys :
        ScenarioStartsAt(<<>>, t) =>
            LET s == RecursiveDeleteScenario(db, subtrees, <<>>, t, u, w) IN
            /\ s.built
            /\ s.res = "Ok"
            /\ RangeOf(s.db.main, compress_subtree_key(<<t>>)) = {}
            /\ RangeOf(s.db.main, compress_subtree_key(<<t, u>>)) = {}
            /\ root_hash(s.db, <<>>) = root_hash(db, <<>>)

\* C12 amended: built under an existing top-level subtree r, delete([r], t)
\* succeeds, empties the main ranges of [r, t] and [r, t, u] and brings the
\* top-level root hash back to its value before the inserts; built at the
\* top level, delete([], t) fails with InvalidPath and leaves what was built.
C12_NestedRecursiveDelete ==
    \A t \in Seg, u \in Seg, w \in ScenarioItemKeys :
        /\ \A r \in Seg :
            ScenarioStartsAt(<<r>>, t) =>
                LET s == RecursiveDeleteScenario(db, subtrees, <<r>>, t, u, w) IN
                /\ s.built
                /\ s.res = "Ok"
                /\ RangeOf(s.db.main, compress_subtree_key(<<r, t>>)) = {}
                /\ RangeOf(s.db.main, compress_subtree_key(<<r, t, u>>)) = {}
                /\ root_hash(s.db, <<>>) = root_hash(db, <<>>)
        /\ ScenarioStartsAt(<<>>, t) =>
                LET s == RecursiveDeleteScenario(db, subtrees, <<>>, t, u, w) IN
                /\ s.built
                /\ s.res = "InvalidPath"
                /\ s.db = s.before

\* The delete of the scenario has run under a top-level subtree, which is
\* empty again.
C12_Witness ==
    /\ last.op = "delete" /\ last.res = "Ok" /\ last.tree
    /\ last.depth = 1 /\ last.n = 2
    /\ \E r \in Seg : ScenarioStartsAt(<<r>>, 1) /\ SubtreeKeys(db, <<r>>) = {}

\* The entries of map m outside the range of prefix p.
OutsideRange(m, p) == [k \in (DOMAIN m) \ RangeOf(m, p) |-> m[k]]

\* C13: put_aux and delete_aux, with or without a transaction, change
\* nothing in the main, roots and meta spaces, no Tree element, no cached
\* handle and not the top-level root hash; they touch the aux space only
\* under the prefix of the top-level context.
C13_AuxFrame ==
    [][last'.op \in {"put_aux", "delete_aux"} =>
        /\ db'.main = db.main /\ db'.roots = db.roots /\ db'.meta = db.meta
        /\ tx'.w.main = tx.w.main /\ tx'.w.roots = tx.w.roots /\ tx'.w.meta = tx.w.meta
        /\ subtrees' = subtrees
        /\ root_hash(db', <<>>) = root_hash(db, <<>>)
        /\ OutsideRange(db'.aux, RootPrefix) = OutsideRange(db.aux, RootPrefix)
        /\ OutsideRange(tx'.w.aux, RootPrefix) = OutsideRange(tx.w.aux, RootPrefix)]_vars

\* An aux operation has run on a grove holding a nested subtree with an
\* entry and aux data of a subtree handle.
C13_Witness ==
    /\ last.op \in {"put_aux", "delete_aux"}
    /\ SubtreeKeys(db, <<1>>) # {}
    /\ OutsideRange(db.aux, RootPrefix) # EmptyMap
    /\ RangeOf(db.aux, RootPrefix) # {}

\* C14: with the same transaction argument, get_aux(k) after put_aux(k, v)
\* returns v and after delete_aux(k) returns empty; no other operation
\* changes what get_aux returns, which is empty for every key at the start;
\* get_aux always succeeds and changes nothing; delete_aux of an absent key
\* succeeds and changes no read (and nothing in the backend).
C14_AuxRoundTrip ==
    [][/\ last.op = "init" =>
            \A k \in Seg : grove_get_aux(db, tx, FALSE, <<k>>) = None
       /\ last'.res = "Ok"
       /\ \A k \in Seg, t \in BOOLEAN :
            LET Others == \A j \in Seg \ {k} :
                    grove_get_aux(db', tx', t, <<j>>) = grove_get_aux(db, tx, t, <<j>>)
            IN
            /\ \A v \in Vals :
                (last'.op = "put_aux" /\ last'.viaTx = t /\ PutAux(k, v, t)) =>
                    /\ grove_get_aux(db', tx', t, <<k>>) = Some(v)
                    /\ Others
            /\ (last'.op = "delete_aux" /\ last'.viaTx = t /\ DeleteAux(k, t)) =>
                    /\ grove_get_aux(db', tx', t, <<k>>) = None
                    /\ Others
                    /\ grove_get_aux(db, tx, t, <<k>>) = None =>
                        (db' = db /\ transaction_commit(db', tx') = transaction_commit(db, tx))
            /\ (last'.op = "get_aux" /\ last'.viaTx = t /\ GetAux(k, t)) =>
                    /\ last'.out = Some(grove_get_aux(db, tx, t, <<k>>))
                    /\ db' = db /\ tx' = tx
            /\ last'.op \in {"insert", "subtree_put_aux", "get_aux"} =>
                    grove_get_aux(db', tx', t, <<k>>) = grove_get_aux(db, tx, t, <<k>>)]_vars

\* get_aux has returned a value while the other key, written and deleted
\* or never written, is absent.
C14_Witness ==
    /\ last.op = "get_aux" /\ last.out # None /\ last.out[1] # None
    /\ \E k \in Seg : grove_get_aux(db, tx, last.viaTx, <<k>>) = None

\* The Tree entries naming the subtrees on the chain of path, in backend d.
ChainEntries(d, path) ==
    [i \in 1..Len(path) |-> ElementAt(d, SubSeq(path, 1, i - 1), path[i])]

\* Every subtree under root has been cleaned up: its ranges are empty and
\* its handle is out of the cache.
CleanedUp(d, st, root) ==
    \A q \in Paths :
        HasPrefix(root, q) => (RangesEmpty(d, q) /\ compress_subtree_key(q) \notin st)

\* C15: inside one delete the entry is removed first: while cleanup or
\* propagation is still to run the entry is already gone and no ancestor's
\* Tree entry has been rewritten; cleanup runs only for a Tree; propagation
\* runs only once every descendant subtree is cleaned up and nothing failed;
\* when the removal fails the delete ends with nothing written, and when a
\* clear() fails it ends without propagation, the ancestors' Tree entries as
\* they were before the call.  The steps of a delete that
\* succeeds leave what delete(path, key) leaves.
C15_WriteOrdering ==
    [][/\ call.phase \in {"cleanup", "propagate"} =>
            /\ ElementAt(db, call.path, call.key) = None
            /\ ElementAt(call.pre, call.path, call.key) # None
            /\ ChainEntries(db, call.path) = ChainEntries(call.pre, call.path)
       /\ call.phase = "cleanup" => call.tree
       /\ call.phase = "propagate" =>
            /\ ~failed
            /\ call.tree => CleanedUp(db, subtrees, call.path \o <<call.key>>)
            /\ \E r \in {delete(call.pre, call.cached, call.path, call.key, 0)} :
                  r.res = last'.res /\ r.db = db' /\ r.subtrees = subtrees'
       /\ last'.res = "CorruptedData" =>
            /\ call'.phase = "idle"
            /\ failed'
            /\ ChainEntries(db', call.path) = ChainEntries(call.pre, call.path)
       /\ (last'.res = "Error" /\ call.phase = "idle") =>
            (call'.phase = "idle" /\ db' = db /\ subtrees' = subtrees)
       /\ call'.phase = "propagate" =>
            (ElementAt(db', call'.path, call'.key) = None /\ ~failed')]_vars

\* A delete of a Tree with a nested subtree has gone through removal, two
\* rounds of cleanup and propagation.
C15_Witness ==
    /\ last.op = "delete" /\ last.res = "Ok" /\ last.tree /\ last.n >= 2
    /\ last.depth >= 1
    /\ call = NoCall

\* The paths under root that name a chain of Tree elements starting in the
\* subtree at root, root itself included.
NestedUnder(d, root) ==
    {q \in Paths :
        /\ HasPrefix(root, q)
        /\ \A i \in (Len(root) + 1)..Len(q) :
              LET e == ElementAt(d, SubSeq(q, 1, i - 1), q[i])
              IN e # None /\ IsTree(e[1])}

\* C16: for every subtree with a handle, find_subtrees(path) returns, and
\* what it returns starts with path and lists exactly the paths nested under
\* path through chains of Tree elements, each once; a key holding an Item or
\* a Reference contributes no path.
C16_FindSubtrees ==
    \A path \in Paths :
        compress_subtree_key(path) \in subtrees =>
            \E found \in {find_subtrees(db, subtrees, path)} :
                /\ found.ok
                /\ found.result[1] = path
                /\ {found.result[i] : i \in DOMAIN found.result} = NestedUnder(db, path)
                /\ Len(found.result) = Cardinality(NestedUnder(db, path))

\* find_subtrees has walked a subtree that holds a Tree with a subtree of
\* its own next to an entry that is no Tree.
C16_Witness ==
    \E path \in Paths :
        /\ compress_subtree_key(path) \in subtrees
        /\ Len(find_subtrees(db, subtrees, path).result) >= 3
        /\ \E q \in NestedUnder(db, path), key \in Seg :
              LET e == ElementAt(db, q, key) IN e # None /\ ~IsTree(e[1])

\* C17: a successful delete of a Tree at (path, key) leaves no handle cached
\* for path ++ [key] or for anything nested under it and keeps the handle of
\* every other subtree; and after every step each cached handle is that of a
\* subtree that exists, every segment of its path a Tree element of the
\* subtree before it.
C17_CacheEviction ==
    [][/\ (last'.op = "delete" /\ last'.res = "Ok" /\ last'.tree) =>
            \A path \in DeletePaths, key \in Seg :
                Delete(path, key, 0) =>
                    \A q \in Paths :
                        IF HasPrefix(path \o <<key>>, q)
                        THEN compress_subtree_key(q) \notin subtrees'
                        ELSE compress_subtree_key(q) \in subtrees =>
                                compress_subtree_key(q) \in subtrees'
       /\ \A q \in Paths :
            compress_subtree_key(q) \in subtrees' => Resolves(db', q)]_vars

\* The backend a commit of the open transaction would leave: the state the
\* same operations leave when issued through direct contexts.
DirectView == transaction_commit(db, tx)

\* C19: in the main, aux and roots spaces the transactional context does to
\* the state a commit would leave what the direct context does to the
\* backend: a put or delete through prefix p inside the transaction changes
\* that state as the direct put or delete through p changes a backend, every
\* get inside the transaction returns what the direct get returns on that
\* state, and the commit leaves the backend in that state.
C19_DirectTxEquivalence ==
    [][(space \in PrefixedSpaces /\ tx.open) =>
        \E view \in {DirectView} :
            /\ \A p \in CtxPrefixes, k \in CtxKeys :
                transactional_get(db, tx, space, p, k) = direct_get(view, space, p, k)
            /\ (last'.viaTx /\ last'.op = "put") =>
                \A p \in CtxPrefixes, k \in CtxKeys, v \in Vals :
                    TxPut(space, p, k, v) =>
                        transaction_commit(db', tx') = direct_put(view, space, p, k, v)
            /\ (last'.viaTx /\ last'.op = "delete_key") =>
                \A p \in CtxPrefixes, k \in CtxKeys :
                    TxDelete(space, p, k) =>
                        transaction_commit(db', tx') = direct_delete(view, space, p, k)
            /\ (last'.op = "commit_transaction" /\ CommitTransaction) =>
                db' = view]_vars

\* A delete inside the open transaction has removed, for the transaction, a
\* key the backend still holds.
C19_Witness ==
    /\ space \in PrefixedSpaces
    /\ tx.open
    /\ last.viaTx /\ last.op = "delete_key"
    /\ \E p \in CtxPrefixes, k \in CtxKeys :
        /\ direct_get(db, space, p, k) # None
        /\ transactional_get(db, tx, space, p, k) = None
        /\ direct_get(DirectView, space, p, k) = None

\* C20: a successful delete(path, key) of an Item or a Reference runs no
\* find_subtrees, evicts no handle, and removes from storage the one main
\* entry (path, key): aux and meta are as before, roots is as before outside
\* the subtree at path itself, every other main entry is still there, and
\* the only entries whose value changes are the Tree entries of the
\* ancestors of path, which stay Tree entries.
C20_NonTreeDeleteFrame ==
    [][(last'.op = "delete" /\ last'.res = "Ok" /\ ~last'.tree) =>
        \A path \in DeletePaths, key \in Seg :
            (Len(path) = last'.depth /\ Delete(path, key, 0)) =>
                /\ last'.n = 0
                /\ subtrees' = subtrees
                /\ db'.aux = db.aux /\ db'.meta = db.meta
                /\ OutsideRange(db'.roots, compress_subtree_key(path))
                      = OutsideRange(db.roots, compress_subtree_key(path))
                /\ DOMAIN db'.main =
                      DOMAIN db.main \ {make_prefixed_key(compress_subtree_key(path), <<key>>)}
                /\ ElementAt(db, path, key) # None
                /\ ElementAt(db', path, key) = None
                /\ \A q \in Paths, k \in Seg :
                      (q # path \/ k # key) =>
                          IF HasPrefix(q \o <<k>>, path)
                          THEN /\ ElementAt(db', q, k) # None
                               /\ IsTree(ElementAt(db', q, k)[1])
                          ELSE ElementAt(db', q, k) = ElementAt(db, q, k)]_vars

\* An Item or a Reference was deleted below the top level while the subtree
\* it was in still holds another entry and a subtree off the chain exists.
C20_Witness ==
    /\ last.op = "delete" /\ last.res = "Ok" /\ ~last.tree /\ last.depth >= 1
    /\ Cardinality(subtrees) >= 3
    /\ \E q \in Paths :
        /\ Len(q) = last.depth
        /\ compress_subtree_key(q) \in subtrees
        /\ \E k \in Seg : ElementAt(db, q, k) # None /\ ~IsTree(ElementAt(db, q, k)[1])
        /\ \E k \in Seg : ElementAt(db, q, k) = None

====
